---------------------------- MODULE Spec2Model ----------------------------
(***************************************************************************)
(* DataProfiler (src/app.py): the profiling engine analyze_dataset with    *)
(* its five analyzers, the quality scorer calculate_quality_score, and the *)
(* entry point profile_dataset that runs the engine on an upload and        *)
(* returns the report.                                                     *)
(*                                                                         *)
(* Numbers.  The program computes in IEEE doubles.  Ratios are kept here   *)
(* as exact integers over a common denominator:                            *)
(*   - a percentage x/n*100 is compared with a threshold t as 100*x > t*n  *)
(*     (for the thresholds 1, 5 and 10 of the scorer the double x/n*100    *)
(*     is exactly the threshold whenever the exact ratio is, so the        *)
(*     comparison of doubles and the comparison of integers agree);        *)
(*   - the local `score` of calculate_quality_score is the record          *)
(*     [num, ulp]: num is the exact value times Scale(stats) and ulp is    *)
(*     the direction in which the double the program holds deviates from   *)
(*     it (-1 below, 0 equal, 1 above) after the inexact subtractions;     *)
(*     the deviation is far smaller than the spacing 1/Scale of the exact  *)
(*     values, so scores are ordered by num first and by ulp second;       *)
(*   - quartiles (linear interpolation at (n-1)*q) are kept times 4 and   *)
(*     the IQR fences times 8, exact for the integer cells modelled.       *)
(***************************************************************************)
EXTENDS Integers, Sequences, FiniteSets, TLC

VARIABLES
    pc,       \* "entry" | "start" | "analyzed" | "loaded" | "plotted" | "scored" | "returned"
    file,     \* what the loader yields for file_path
    result,   \* the value analyze_dataset returned
    ran,      \* the analyzers analyze_dataset has called, in call order
    score,    \* the local `score` of calculate_quality_score at its return
    verdict,  \* the value calculate_quality_score returned
    upload,   \* the argument of profile_dataset: "None" or "file"
    calls,    \* what profile_dataset has called, in call order
    plots,    \* the keys of the dict generate_visualizations returned
    returned  \* the tuple profile_dataset returned, <<>> before it returns

vars == <<pc, file, result, ran, score, verdict, upload, calls, plots, returned>>

NONE == "None"

Max(a, b) == IF a >= b THEN a ELSE b
Min(a, b) == IF a <= b THEN a ELSE b

RECURSIVE GCD(_, _)
GCD(a, b) == IF b = 0 THEN a ELSE GCD(b, a % b)

RECURSIVE IsPowerOfTwo(_)
IsPowerOfTwo(n) == IF n = 1 THEN TRUE ELSE IF n % 2 = 1 THEN FALSE ELSE IsPowerOfTwo(n \div 2)

\* x / n is a double exactly (n > 0): its reduced denominator is a power of 2.
ExactQuotient(x, n) == IsPowerOfTwo(n \div GCD(n, x))

(***************************************************************************)
(* Datasets.  A DataFrame is [n |-> row count, columns |-> sequence of     *)
(* [dtype, cells, adjacent]]; a column's name is its position.  A cell is  *)
(* a natural number (for an object column, the code of a string) or NULL   *)
(* (NaN/NaT).  In a numeric column the cell v is the double v, and the     *)
(* quartile arithmetic on such small integers is exact; in a numeric       *)
(* column with `adjacent` set the cell v is the double base + v * ulp, v   *)
(* places after a double `base` with an even significand well inside its   *)
(* binade (0.3, 0.30000000000000004, ...), a quartile or a fence is a      *)
(* double of the same binade, kept as its distance from base in ulps, and  *)
(* every sum that falls between two doubles is rounded to the nearest,     *)
(* ties to even.  The statistics of such a column are kept in the same     *)
(* unit, relative to base.                                                 *)
(***************************************************************************)
NULL == -1

NUMBER == "number"
OBJECT == "object"
DATETIME == "datetime64"
BOOL == "bool"

\* Series.dropna()
dropna(cells) == SelectSeq(cells, LAMBDA v : v # NULL)

\* Series.isnull().sum()
null_count(cells) == Len(cells) - Len(dropna(cells))

RECURSIVE SumSeq(_)
SumSeq(q) == IF q = <<>> THEN 0 ELSE Head(q) + SumSeq(Tail(q))

RECURSIVE Insert(_, _)
Insert(v, q) ==
    IF q = <<>> THEN <<v>>
    ELSE IF v <= Head(q) THEN <<v>> \o q
    ELSE <<Head(q)>> \o Insert(v, Tail(q))

RECURSIVE SortAscending(_)
SortAscending(q) == IF q = <<>> THEN <<>> ELSE Insert(Head(q), SortAscending(Tail(q)))

\* select_dtypes with 'object' taken to select the numeric columns as well.
select_dtypes_object_numeric(df, kind) ==
    SelectSeq([i \in 1..Len(df.columns) |-> i],
              LAMBDA i : \/ df.columns[i].dtype = kind
                         \/ kind = OBJECT /\ df.columns[i].dtype = NUMBER)

\* select_dtypes with np.number taken to include the boolean columns.
select_dtypes_bool_numeric(df, kind) ==
    SelectSeq([i \in 1..Len(df.columns) |-> i],
              LAMBDA i : \/ df.columns[i].dtype = kind
                         \/ kind = NUMBER /\ df.columns[i].dtype = BOOL)

\* df.select_dtypes(include=[kind]): the positions of the columns of that dtype, in order.
select_dtypes(df, kind) ==
    SelectSeq([i \in 1..Len(df.columns) |-> i], LAMBDA i : df.columns[i].dtype = kind)

\* DataFrame.empty: no rows or no columns.
empty(df) == df.n = 0 \/ Len(df.columns) = 0

\* The nulls of the numeric columns alone.
missing_values_numeric(df) ==
    SumSeq([i \in 1..Len(df.columns) |->
               IF df.columns[i].dtype = NUMBER THEN null_count(df.columns[i].cells) ELSE 0])

\* df.isnull().sum().sum()
missing_values(df) == SumSeq([i \in 1..Len(df.columns) |-> null_count(df.columns[i].cells)])

row(df, i) == [c \in 1..Len(df.columns) |-> df.columns[c].cells[i]]

\* df.duplicated().sum(): the rows equal to an earlier row (NaN equal to NaN).
duplicate_rows(df) ==
    Cardinality({i \in 1..df.n : \E j \in 1..(i - 1) : row(df, j) = row(df, i)})

(***************************************************************************)
(* The IQR rule (lines 168-173 and 190-195).                               *)
(***************************************************************************)
\* The integer nearest to num / den (den > 0), the even one of two equally near.
RoundHalfEven(num, den) ==
    LET q == num \div den
        r == num % den
    IN  IF 2 * r < den THEN q
        ELSE IF 2 * r > den THEN q + 1
        ELSE IF q % 2 = 0 THEN q ELSE q + 1

\* The double that holds x / den: x / den itself for small integers, the nearest double
\* for adjacent doubles; times den.
AsDouble(x, den, adjacent) == IF adjacent THEN den * RoundHalfEven(x, den) ELSE x

\* 4 * series.quantile(q4 / 4), by linear interpolation at position (n - 1) * q4 / 4.
Quantile4(series, q4, adjacent) ==
    LET sorted == SortAscending(series)
        pos4 == (Len(series) - 1) * q4
        lo == pos4 \div 4
        part == pos4 % 4
    IN  IF part = 0 THEN 4 * sorted[lo + 1]
        ELSE AsDouble((4 - part) * sorted[lo + 1] + part * sorted[lo + 2], 4, adjacent)

\* 8 * lower_bound and 8 * upper_bound.
Fences(series, adjacent) ==
    LET Q1 == Quantile4(series, 1, adjacent)
        Q3 == Quantile4(series, 3, adjacent)
        IQR == Q3 - Q1
    IN  [lower_bound |-> AsDouble(2 * Q1 - 3 * IQR, 8, adjacent),
         upper_bound |-> AsDouble(2 * Q3 + 3 * IQR, 8, adjacent)]

\* IsOutlier with the bounds themselves counted as outliers (<=, >=).
IsOutlier_inclusive(v, fences) == 8 * v <= fences.lower_bound \/ 8 * v >= fences.upper_bound

\* (series < lower_bound) | (series > upper_bound)
IsOutlier(v, fences) == 8 * v < fences.lower_bound \/ 8 * v > fences.upper_bound

\* series[(series < lower_bound) | (series > upper_bound)]
outliers_of(series, adjacent) ==
    LET fences == Fences(series, adjacent) IN SelectSeq(series, LAMBDA v : IsOutlier(v, fences))

\* _has_outliers_iqr, lines 186-195.
has_outliers_iqr(series, adjacent) ==
    IF Len(series) < 4 THEN FALSE ELSE Len(outliers_of(series, adjacent)) > 0

\* _detect_outliers, lines 164-179: the entries of the columns cs, in order.
RECURSIVE outlier_columns(_, _)
outlier_columns(df, cs) ==
    IF cs = <<>> THEN <<>>
    ELSE LET series == dropna(df.columns[Head(cs)].cells)
             found == IF Len(series) > 0
                      THEN Len(outliers_of(series, df.columns[Head(cs)].adjacent))
                      ELSE 0
         IN  (IF found > 0
              THEN << [column |-> Head(cs), outlier_count |-> found,
                       percentage |-> [num |-> 100 * found, den |-> Len(series)]] >>
              ELSE <<>>)
             \o outlier_columns(df, Tail(cs))

\* _detect_outliers, lines 158-184.
detect_outliers(df) ==
    LET numeric == select_dtypes(df, NUMBER)
    IN  IF numeric = <<>> \/ df.n = 0
        THEN [has_outliers |-> FALSE, outlier_columns |-> <<>>]
        ELSE LET found == outlier_columns(df, numeric)
             IN  [has_outliers |-> Len(found) > 0, outlier_columns |-> found]

(***************************************************************************)
(* The numeric and categorical analyzers.                                  *)
(***************************************************************************)
\* Series.median(), as a fraction.
median(series) ==
    LET sorted == SortAscending(series)
        n == Len(series)
    IN  IF n % 2 = 1 THEN [num |-> 2 * sorted[(n + 1) \div 2], den |-> 2]
        ELSE [num |-> sorted[n \div 2] + sorted[n \div 2 + 1], den |-> 2]

\* n * sum(x^2) - sum(x)^2, which is n^2 times the population variance.
SumSqDev(series) ==
    Len(series) * SumSeq([i \in 1..Len(series) |-> series[i] * series[i]])
        - SumSeq(series) * SumSeq(series)

\* Series.std() (ddof = 1): NaN below two values, else the root of var_num / var_den.
std(series) ==
    IF Len(series) < 2 THEN [nan |-> TRUE, var_num |-> 0, var_den |-> 1]
    ELSE [nan |-> FALSE, var_num |-> SumSqDev(series),
          var_den |-> Len(series) * (Len(series) - 1)]

\* Series.skew(): NaN below three values, 0 for a constant series, else
\* sqrt(n - 1) / (n - 2) * m3 / m2^1.5; m3 is sum((n*x - sum(x))^3) and m2 is SumSqDev.
skew(series) ==
    IF Len(series) < 3 THEN [nan |-> TRUE, n |-> Len(series), m3 |-> 0, m2 |-> 0]
    ELSE [nan |-> FALSE, n |-> Len(series),
          m3 |-> SumSeq([i \in 1..Len(series) |->
                    LET dev == Len(series) * series[i] - SumSeq(series) IN dev * dev * dev]),
          m2 |-> SumSqDev(series)]

\* Lines 79-90 with an all-null column given an entry of zeros.
numeric_entries_zero_filled(df, cs) ==
    [q \in 1..Len(cs) |->
        LET series == dropna(df.columns[cs[q]].cells)
        IN  IF Len(series) > 0
            THEN [column |-> cs[q],
                  mean |-> [num |-> SumSeq(series), den |-> Len(series)],
                  median |-> median(series),
                  std |-> std(series),
                  min |-> SortAscending(series)[1],
                  max |-> SortAscending(series)[Len(series)],
                  skewness |-> skew(series),
                  has_outliers |-> has_outliers_iqr(series, df.columns[cs[q]].adjacent)]
            ELSE [column |-> cs[q],
                  mean |-> [num |-> 0, den |-> 1],
                  median |-> [num |-> 0, den |-> 2],
                  std |-> [nan |-> FALSE, var_num |-> 0, var_den |-> 1],
                  min |-> 0,
                  max |-> 0,
                  skewness |-> [nan |-> FALSE, n |-> 0, m3 |-> 0, m2 |-> 0],
                  has_outliers |-> FALSE]]

\* Lines 79-90: the entries of the numeric columns cs, in order.
RECURSIVE numeric_entries(_, _)
numeric_entries(df, cs) ==
    IF cs = <<>> THEN <<>>
    ELSE LET series == dropna(df.columns[Head(cs)].cells)
         IN  (IF Len(series) > 0
              THEN << [column |-> Head(cs),
                       mean |-> [num |-> SumSeq(series), den |-> Len(series)],
                       median |-> median(series),
                       std |-> std(series),
                       min |-> SortAscending(series)[1],
                       max |-> SortAscending(series)[Len(series)],
                       skewness |-> skew(series),
                       has_outliers |-> has_outliers_iqr(series, df.columns[Head(cs)].adjacent)] >>
              ELSE <<>>)
             \o numeric_entries(df, Tail(cs))

\* _analyze_numeric_columns, lines 72-92.  None is [is_none |-> TRUE].
analyze_numeric_columns(df) ==
    LET numeric == select_dtypes(df, NUMBER)
    IN  IF numeric = <<>> \/ df.n = 0 THEN [is_none |-> TRUE, stats |-> <<>>]
        ELSE [is_none |-> FALSE, stats |-> numeric_entries(df, numeric)]

\* Series.value_counts(): the count of each distinct value.
count_of(series, v) == Len(SelectSeq(series, LAMBDA w : w = v))
distinct(series) == {series[i] : i \in 1..Len(series)}

\* value_counts().iloc[0]
most_common_count(series) ==
    CHOOSE k \in {count_of(series, v) : v \in distinct(series)} :
        \A v \in distinct(series) : count_of(series, v) <= k

\* value_counts().index[0]; among values of equal count, the one met first.
most_common(series) ==
    series[CHOOSE i \in 1..Len(series) :
        /\ count_of(series, series[i]) = most_common_count(series)
        /\ \A j \in 1..(i - 1) : count_of(series, series[j]) < most_common_count(series)]

\* _calculate_entropy, lines 197-204: -sum(p * log2(p + 1e-10)) over p = count / total;
\* kept as the counts it is computed from, in ascending order, and the total.
calculate_entropy(series) ==
    [counts |-> SortAscending(
                    SelectSeq([i \in 1..Len(series) |->
                                  IF \E j \in 1..(i - 1) : series[j] = series[i]
                                  THEN 0 ELSE count_of(series, series[i])],
                              LAMBDA k : k > 0)),
     total |-> Len(series)]

\* Lines 101-110: the entries of the object columns cs, in order.
RECURSIVE categorical_entries(_, _)
categorical_entries(df, cs) ==
    IF cs = <<>> THEN <<>>
    ELSE LET series == dropna(df.columns[Head(cs)].cells)
         IN  (IF Len(series) > 0
              THEN << [column |-> Head(cs),
                       unique_values |-> Cardinality(distinct(series)),
                       most_common |-> most_common(series),
                       most_common_count |-> most_common_count(series),
                       entropy |-> calculate_entropy(series)] >>
              ELSE <<>>)
             \o categorical_entries(df, Tail(cs))

\* _analyze_categorical_columns, lines 94-112.
analyze_categorical_columns(df) ==
    LET categorical == select_dtypes(df, OBJECT)
    IN  IF categorical = <<>> \/ df.n = 0 THEN [is_none |-> TRUE, stats |-> <<>>]
        ELSE [is_none |-> FALSE, stats |-> categorical_entries(df, categorical)]

(***************************************************************************)
(* The missingness analyzer.                                               *)
(***************************************************************************)
\* missing_data[missing_data > 0]: the columns with nulls, in column order.
columns_with_nulls(df) ==
    SelectSeq([i \in 1..Len(df.columns) |-> i],
              LAMBDA i : null_count(df.columns[i].cells) > 0)

\* sort_values(ascending=False) with the default kind, which is not stable: every order
\* of the columns with nulls that is descending in the null count.
SortOrders(df) ==
    LET cs == columns_with_nulls(df)
        k == Len(cs)
    IN  { order \in [1..k -> {cs[i] : i \in 1..k}] :
            /\ \A i, j \in 1..k : i # j => order[i] # order[j]
            /\ \A i \in 1..(k - 1) :
                  null_count(df.columns[order[i]].cells)
                      >= null_count(df.columns[order[i + 1]].cells) }

\* The rows holding at least one null.
rows_with_nulls(df) ==
    Cardinality({i \in 1..df.n : \E c \in 1..Len(df.columns) : df.columns[c].cells[i] = NULL})

\* The missingness summary with total_missing counting the rows that hold a null.
analyze_missing_data_rows(df, order) ==
    IF order = <<>>
    THEN [has_missing |-> FALSE, missing_columns |-> <<>>]
    ELSE [has_missing |-> TRUE,
          missing_columns |-> [i \in 1..Len(order) |->
              [column |-> order[i], count |-> null_count(df.columns[order[i]].cells)]],
          total_missing |-> rows_with_nulls(df),
          missing_percentage |-> [num |-> 100 * rows_with_nulls(df), den |-> df.n]]

\* _analyze_missing_data, lines 114-131, for the order the sort produced.
analyze_missing_data(df, order) ==
    IF order = <<>>
    THEN [has_missing |-> FALSE, missing_columns |-> <<>>]
    ELSE [has_missing |-> TRUE,
          missing_columns |-> [i \in 1..Len(order) |->
              [column |-> order[i], count |-> null_count(df.columns[order[i]].cells)]],
          total_missing |-> SumSeq([i \in 1..Len(order) |-> null_count(df.columns[order[i]].cells)]),
          missing_percentage |->
              [num |-> 100 * SumSeq([i \in 1..Len(order) |-> null_count(df.columns[order[i]].cells)]),
               den |-> df.n]]

(***************************************************************************)
(* The correlation analyzer.  A matrix entry is Pearson's r over the rows  *)
(* where both columns are non-null: r = sxy / sqrt(sxx * syy), NaN when    *)
(* sxx * syy = 0.  The literal 0.7 is the double nearest to 7/10 and lies  *)
(* below it; when r is exactly 7/10 the computed double is that double     *)
(* (ulp = 0) or a neighbour of it (ulp = -1, 1).  Everywhere else the      *)
(* comparison of the doubles is the comparison of the exact values.        *)
(***************************************************************************)
\* The rows where both columns hold a value.
complete_rows(df, a, b) ==
    SelectSeq([i \in 1..df.n |-> i],
              LAMBDA i : df.columns[a].cells[i] # NULL /\ df.columns[b].cells[i] # NULL)

\* m * sum(x*y) - sum(x) * sum(y) over the complete rows.
CoMoment(df, a, b) ==
    LET idx == complete_rows(df, a, b)
        x == [k \in 1..Len(idx) |-> df.columns[a].cells[idx[k]]]
        y == [k \in 1..Len(idx) |-> df.columns[b].cells[idx[k]]]
    IN  Len(idx) * SumSeq([k \in 1..Len(idx) |-> x[k] * y[k]]) - SumSeq(x) * SumSeq(y)

\* One entry of numeric_df.corr(), for the columns a and b of df.
corr_value(df, a, b, ulp) ==
    LET idx == complete_rows(df, a, b)
        x == [k \in 1..Len(idx) |-> df.columns[a].cells[idx[k]]]
        y == [k \in 1..Len(idx) |-> df.columns[b].cells[idx[k]]]
    IN  [nan |-> SumSqDev(x) * SumSqDev(y) = 0,
         sxy |-> CoMoment(df, a, b), sxx |-> SumSqDev(x), syy |-> SumSqDev(y), ulp |-> ulp]

\* |r| is exactly 7/10.
AtThreshold(r) == ~r.nan /\ 100 * r.sxy * r.sxy = 49 * r.sxx * r.syy

\* abs(corr_value) > 0.7 with NaN taken as strong.
IsStrong_nan(r) ==
    \/ r.nan
    \/ 100 * r.sxy * r.sxy > 49 * r.sxx * r.syy
    \/ AtThreshold(r) /\ r.ulp > 0

\* abs(corr_value) > 0.7, line 145; false for NaN.
IsStrong(r) ==
    /\ ~r.nan
    /\ \/ 100 * r.sxy * r.sxy > 49 * r.sxx * r.syy
       \/ AtThreshold(r) /\ r.ulp > 0

\* The pairs (i, j), i < j <= k, from (i, j) on, in the order of the loops of lines 142-143.
RECURSIVE PairsFrom(_, _, _)
PairsFrom(i, j, k) ==
    IF i >= k THEN <<>>
    ELSE IF j > k THEN PairsFrom(i + 1, i + 2, k)
    ELSE << <<i, j>> >> \o PairsFrom(i, j + 1, k)

\* The pairs of numeric columns whose r is exactly 7/10.
ThresholdPairs(df) ==
    LET numeric == select_dtypes(df, NUMBER)
    IN  { p \in {PairsFrom(1, 2, Len(numeric))[q] : q \in 1..Len(PairsFrom(1, 2, Len(numeric)))} :
            AtThreshold(corr_value(df, numeric[p[1]], numeric[p[2]], 0)) }

\* The ways the entries at the threshold can be rounded.
CorrRoundings(df) == [ThresholdPairs(df) -> {-1, 0, 1}]

matrix_entry(df, numeric, i, j, rnd) ==
    LET p == IF i <= j THEN <<i, j>> ELSE <<j, i>>
    IN  corr_value(df, numeric[i], numeric[j], IF p \in DOMAIN rnd THEN rnd[p] ELSE 0)

\* Lines 141-150.
strong_correlations(df, numeric, rnd) ==
    LET pairs == PairsFrom(1, 2, Len(numeric))
        strong == SelectSeq(pairs, LAMBDA p : IsStrong(matrix_entry(df, numeric, p[1], p[2], rnd)))
    IN  [q \in 1..Len(strong) |->
            [col1 |-> numeric[strong[q][1]], col2 |-> numeric[strong[q][2]],
             correlation |-> matrix_entry(df, numeric, strong[q][1], strong[q][2], rnd)]]

\* _analyze_correlations, lines 133-156.
analyze_correlations(df, rnd) ==
    LET numeric == select_dtypes(df, NUMBER)
    IN  IF Len(numeric) < 2
        THEN [is_none |-> TRUE, matrix |-> <<>>, strong_correlations |-> <<>>, count_strong |-> 0]
        ELSE [is_none |-> FALSE,
              matrix |-> [i \in 1..Len(numeric) |-> [j \in 1..Len(numeric) |->
                              matrix_entry(df, numeric, i, j, rnd)]],
              strong_correlations |-> strong_correlations(df, numeric, rnd),
              count_strong |-> Len(strong_correlations(df, numeric, rnd))]

(***************************************************************************)
(* analyze_dataset, lines 30-70.  `f` is what loading file_path does: it   *)
(* yields the DataFrame f.df, or raises with the text f.text; f.raises     *)
(* names the step that raises ("load", an analyzer, or "none").            *)
(***************************************************************************)
ANALYZERS ==
    <<"numeric_stats", "categorical_stats", "missing_patterns", "correlations", "outliers">>

ErrorTextLimit == 150

\* str(e)[:150]
Truncate(text) == SubSeq(text, 1, Min(Len(text), ErrorTextLimit))

\* Line 70.
ErrorResult(text) ==
    [error |-> [message |-> "Erro ao analisar dataset: ", text |-> Truncate(text)]]

\* Line 40.
EmptyResult == [error |-> [message |-> "Dataset vazio", text |-> <<>>]]

\* Lines 43-50.
basic_stats(df) ==
    [shape |-> <<df.n, Len(df.columns)>>,
     missing_values |-> missing_values(df),
     duplicate_rows |-> duplicate_rows(df),
     numeric_columns |-> Len(select_dtypes(df, NUMBER)),
     categorical_columns |-> Len(select_dtypes(df, OBJECT)),
     datetime_columns |-> Len(select_dtypes(df, DATETIME))]

\* Lines 53-59.
detailed_analysis(df, order, rnd) ==
    [numeric_stats |-> analyze_numeric_columns(df),
     categorical_stats |-> analyze_categorical_columns(df),
     missing_patterns |-> analyze_missing_data(df, order),
     correlations |-> analyze_correlations(df, rnd),
     outliers |-> detect_outliers(df)]

\* Lines 61-67.
Profile(df, order, rnd) ==
    [stats |-> basic_stats(df),
     analysis |-> detailed_analysis(df, order, rnd),
     sample |-> [c \in 1..Len(df.columns) |-> SubSeq(df.columns[c].cells, 1, Min(df.n, 5))],
     columns |-> [c \in 1..Len(df.columns) |-> c],
     dtypes |-> [c \in 1..Len(df.columns) |-> df.columns[c].dtype]]

\* The analyzers called up to and including the one named.
CalledUpTo(name) ==
    SubSeq(ANALYZERS, 1, CHOOSE i \in 1..Len(ANALYZERS) : ANALYZERS[i] = name)

\* analyze_dataset running the analyzers before it looks at df.empty.
analyze_dataset_late_check(f, order, rnd) ==
    IF f.raises = "load" THEN [result |-> ErrorResult(f.text), ran |-> <<>>]
    ELSE IF f.raises # "none" /\ ~empty(f.df)
         THEN [result |-> ErrorResult(f.text), ran |-> CalledUpTo(f.raises)]
    ELSE IF empty(f.df) THEN [result |-> EmptyResult, ran |-> ANALYZERS]
    ELSE [result |-> Profile(f.df, order, rnd), ran |-> ANALYZERS]

\* analyze_dataset, lines 30-70: the value returned and the analyzers called.
analyze_dataset(f, order, rnd) ==
    IF f.raises = "load" THEN [result |-> ErrorResult(f.text), ran |-> <<>>]
    ELSE IF empty(f.df) THEN [result |-> EmptyResult, ran |-> <<>>]
    ELSE IF f.raises # "none"
         THEN [result |-> ErrorResult(f.text), ran |-> CalledUpTo(f.raises)]
    ELSE [result |-> Profile(f.df, order, rnd), ran |-> ANALYZERS]

(***************************************************************************)
(* calculate_quality_score                                                 *)
(***************************************************************************)
rows(stats) == stats.shape[1]
cols(stats) == stats.shape[2]
total_cells(stats) == rows(stats) * cols(stats)

\* Line 598: missing_pct, as a fraction (total_cells > 0).
missing_pct(stats) == [num |-> 100 * stats.missing_values, den |-> total_cells(stats)]

\* The common denominator of the scorer's exact values.
Scale(stats) == Max(rows(stats), 1) * Max(cols(stats), 1)

\* MissingPenalty with the upper threshold inclusive (missing_pct >= 10).
MissingPenalty_inclusive(stats) ==
    IF total_cells(stats) > 0
    THEN IF 100 * stats.missing_values >= 10 * total_cells(stats)
         THEN 2 * 100 * stats.missing_values
         ELSE IF 100 * stats.missing_values > 5 * total_cells(stats)
              THEN 100 * stats.missing_values
              ELSE 0
    ELSE 0

\* MissingPenalty with the two multipliers exchanged.
MissingPenalty_swapped(stats) ==
    IF total_cells(stats) > 0
    THEN IF 100 * stats.missing_values > 10 * total_cells(stats)
         THEN 100 * stats.missing_values
         ELSE IF 100 * stats.missing_values > 5 * total_cells(stats)
              THEN 2 * 100 * stats.missing_values
              ELSE 0
    ELSE 0

\* Lines 596-602: the amount subtracted for nulls, times Scale.
MissingPenalty(stats) ==
    IF total_cells(stats) > 0
    THEN IF 100 * stats.missing_values > 10 * total_cells(stats)
         THEN 2 * 100 * stats.missing_values
         ELSE IF 100 * stats.missing_values > 5 * total_cells(stats)
              THEN 100 * stats.missing_values
              ELSE 0
    ELSE 0

\* DuplicatePenalty with the lower threshold inclusive (duplicate_pct >= 1).
DuplicatePenalty_inclusive(stats) ==
    IF rows(stats) > 0
    THEN IF 100 * stats.duplicate_rows > 5 * rows(stats)
         THEN 3 * 100 * stats.duplicate_rows * Max(cols(stats), 1)
         ELSE IF 100 * stats.duplicate_rows >= 1 * rows(stats)
              THEN 2 * 100 * stats.duplicate_rows * Max(cols(stats), 1)
              ELSE 0
    ELSE 0

\* Lines 605-610: the amount subtracted for duplicate rows, times Scale.
DuplicatePenalty(stats) ==
    IF rows(stats) > 0
    THEN IF 100 * stats.duplicate_rows > 5 * rows(stats)
         THEN 3 * 100 * stats.duplicate_rows * Max(cols(stats), 1)
         ELSE IF 100 * stats.duplicate_rows > 1 * rows(stats)
              THEN 2 * 100 * stats.duplicate_rows * Max(cols(stats), 1)
              ELSE 0
    ELSE 0

\* OutlierPenalty with "at least half" in place of "more than half".
OutlierPenalty_half(stats, analysis) ==
    IF analysis.outliers.has_outliers
    THEN LET outlier_cols == Len(analysis.outliers.outlier_columns)
         IN  IF 2 * outlier_cols >= stats.numeric_columns
             THEN 15 * Scale(stats)
             ELSE IF outlier_cols > 0 THEN 5 * Scale(stats) ELSE 0
    ELSE 0

\* Lines 613-618: the amount subtracted for outliers, times Scale.
OutlierPenalty(stats, analysis) ==
    IF analysis.outliers.has_outliers
    THEN LET outlier_cols == Len(analysis.outliers.outlier_columns)
         IN  IF 2 * outlier_cols > stats.numeric_columns
             THEN 15 * Scale(stats)
             ELSE IF outlier_cols > 0 THEN 5 * Scale(stats) ELSE 0
    ELSE 0

\* The directions the double `score` can deviate from the exact value: none when every
\* operation of lines 598-610 that ran is exact.
Roundings(stats) ==
    IF \/ MissingPenalty(stats) > 0
          /\ ~ExactQuotient(stats.missing_values, total_cells(stats))
       \/ DuplicatePenalty(stats) > 0
          /\ ~ExactQuotient(stats.duplicate_rows, rows(stats))
    THEN {-1, 0, 1}
    ELSE {0}

\* Line 621: max(0, min(100, score)).
ClampScore(stats, s) ==
    LET top == IF s.num >= 100 * Scale(stats) THEN [num |-> 100 * Scale(stats), ulp |-> 0] ELSE s
    IN  IF top.num < 0 \/ (top.num = 0 /\ top.ulp < 0) THEN [num |-> 0, ulp |-> 0] ELSE top

\* Lines 593-621: the local `score` when the verdict is chosen.
QualityScore(stats, analysis, rnd) ==
    ClampScore(stats,
        [num |-> 100 * Scale(stats) - MissingPenalty(stats) - DuplicatePenalty(stats)
                    - OutlierPenalty(stats, analysis),
         ulp |-> rnd])

\* score >= t for the double `score`.
ScoreAtLeast(stats, s, t) ==
    \/ s.num > t * Scale(stats)
    \/ s.num = t * Scale(stats) /\ s.ulp >= 0

\* Verdict with exclusive lower bounds (score > 85, > 70, > 50).
Verdict_exclusive(stats, s) ==
    IF s.num > 85 * Scale(stats) THEN "EXCELENTE"
    ELSE IF s.num > 70 * Scale(stats) THEN "BOM"
    ELSE IF s.num > 50 * Scale(stats) THEN "ACEITAVEL"
    ELSE "PROBLEMAS"

\* Lines 623-630.
Verdict(stats, s) ==
    IF ScoreAtLeast(stats, s, 85) THEN "EXCELENTE"
    ELSE IF ScoreAtLeast(stats, s, 70) THEN "BOM"
    ELSE IF ScoreAtLeast(stats, s, 50) THEN "ACEITAVEL"
    ELSE "PROBLEMAS"

calculate_quality_score(stats, analysis, rnd) ==
    Verdict(stats, QualityScore(stats, analysis, rnd))

(***************************************************************************)
(* The scorer as a pure function: its inputs drawn from bounded profiles.  *)
(* Shapes are every small shape and the 100-row, 2-column shape, on which  *)
(* every whole percentage of duplicate rows and every half percentage of   *)
(* missing cells occurs.                                                   *)
(***************************************************************************)
MaxScoreRows == 12
MaxScoreCols == 2

ScoreShapes == ((1..MaxScoreRows) \X (1..MaxScoreCols)) \cup {<<100, 2>>}

OutlierList(k) == [i \in 1..k |-> [column |-> i, outlier_count |-> 1]]

ScorerInput(shape, m, d, n, k) ==
    [stats |-> [shape |-> shape, missing_values |-> m, duplicate_rows |-> d,
                numeric_columns |-> n],
     analysis |-> [outliers |-> [has_outliers |-> k > 0, outlier_columns |-> OutlierList(k)]]]

InitScore ==
    /\ pc = "analyzed"
    /\ file = NONE
    /\ \E shape \in ScoreShapes :
        \E m \in 0..(shape[1] * shape[2]), d \in 0..(shape[1] - 1), n \in 0..shape[2] :
            \E k \in 0..n : result = ScorerInput(shape, m, d, n, k)
    /\ ran = <<>>
    /\ score = NONE
    /\ verdict = NONE
    /\ upload = "file"
    /\ calls = <<>>
    /\ plots = {}
    /\ returned = <<>>

\* create_result_html, line 335: the scorer applied to a profile analyze_dataset returned.
CalculateQualityScore ==
    /\ pc = "analyzed"
    /\ "error" \notin DOMAIN result
    /\ \E rnd \in Roundings(result.stats) :
        /\ score' = QualityScore(result.stats, result.analysis, rnd)
        /\ verdict' = calculate_quality_score(result.stats, result.analysis, rnd)
    /\ pc' = "scored"
    /\ UNCHANGED <<file, result, ran, upload, calls, plots, returned>>

NextScore == CalculateQualityScore

SpecScore == InitScore /\ [][NextScore]_vars

(***************************************************************************)
(* The engine on bounded datasets: analyze_dataset, then the scorer on the *)
(* profile it returned.                                                    *)
(***************************************************************************)
MaxCells == 7
MaxCols == 2

DTYPES == {NUMBER, OBJECT, DATETIME, BOOL}

\* The cells a column of each dtype can hold; a bool column holds no nulls (pandas
\* reads a boolean column with a missing cell as object).
CellsOf(dtype) ==
    CASE dtype = NUMBER -> {NULL, 0, 1}
      [] dtype = OBJECT -> {NULL, 0}
      [] dtype = DATETIME -> {NULL, 0}
      [] OTHER -> {1}

ColumnsOf(n) ==
    UNION { { [dtype |-> t, cells |-> c, adjacent |-> FALSE] : c \in [1..n -> CellsOf(t)] } :
            t \in DTYPES }

\* Rows and columns of the datasets: at most MaxCells cells in at most MaxCols columns;
\* a file without rows has columns or not (a header alone, an empty sheet).
Shapes ==
    { sh \in (0..MaxCells) \X (0..MaxCols) :
        sh[1] * sh[2] <= MaxCells /\ (sh[2] = 0 => sh[1] = 0) }

NumericColumn(cells) == [dtype |-> NUMBER, cells |-> cells, adjacent |-> FALSE]

\* Datasets of three numeric columns and two rows.
NumericTriples ==
    { [n |-> 2, columns |-> [c \in 1..3 |-> NumericColumn(cs[c])]] :
        cs \in [1..3 -> [1..2 -> {NULL, 0, 1}]] }

\* Datasets of two columns and four rows, the fewest rows at which a column can hold
\* an outlier.
FourRowPairs ==
    { [n |-> 4, columns |-> cs] : cs \in [1..2 -> ColumnsOf(4)] }

\* One numeric column of at most MaxWideRows cells over a wider range of values.
MaxWideRows == 4

WideColumns ==
    UNION { { [n |-> n, columns |-> << NumericColumn(c) >>] : c \in [1..n -> {NULL, 0, 1, 7, 100}] } :
            n \in 1..MaxWideRows }

\* One numeric column of at most MaxWideRows cells holding doubles next to one another.
AdjacentColumns ==
    UNION { { [n |-> n, columns |-> << [dtype |-> NUMBER, cells |-> c, adjacent |-> TRUE] >>] :
                c \in [1..n -> {NULL, 0, 1, 2}] } :
            n \in 1..MaxWideRows }

\* The columns of the specification's Examples 5 and 4, and two columns whose r is
\* exactly 0.7.
ExampleDatasets ==
    { [n |-> 5, columns |-> << NumericColumn(<<1, 2, 3, 4, 100>>) >>],
      [n |-> 4, columns |-> << [dtype |-> OBJECT, cells |-> <<0, 0, 0, 1>>, adjacent |-> FALSE] >>],
      [n |-> 6, columns |-> << NumericColumn(<<2, 2, 2, 1, 1, 0>>),
                               NumericColumn(<<2, 2, 2, 1, 0, 1>>) >>] }

Loaded(df) == [df |-> df, raises |-> "none", text |-> <<>>]

\* The texts of the exceptions raised, by length: short, at the limit, beyond it.
ExceptionTexts == { [i \in 1..k |-> i] : k \in {0, 1, 150, 151, 300} }

\* Loading raises.
LoadFailures ==
    { [df |-> [n |-> 0, columns |-> <<>>], raises |-> "load", text |-> t] : t \in ExceptionTexts }

\* An analyzer raises, on a dataset of one column and at most two rows.
AnalyzerFailures ==
    { [df |-> [n |-> n, columns |-> <<c>>], raises |-> ANALYZERS[a], text |-> t] :
        n \in 0..2, c \in ColumnsOf(0) \cup ColumnsOf(1) \cup ColumnsOf(2),
        a \in 1..Len(ANALYZERS), t \in ExceptionTexts }

Init ==
    /\ pc = "start"
    /\ \/ \E sh \in Shapes : \E cs \in [1..sh[2] -> ColumnsOf(sh[1])] :
            file = Loaded([n |-> sh[1], columns |-> cs])
       \/ \E df \in FourRowPairs : file = Loaded(df)
       \/ \E df \in NumericTriples \cup WideColumns \cup AdjacentColumns \cup ExampleDatasets :
            file = Loaded(df)
       \/ file \in LoadFailures
       \/ \E f \in AnalyzerFailures : Len(f.df.columns[1].cells) = f.df.n /\ file = f
    /\ result = NONE
    /\ ran = <<>>
    /\ score = NONE
    /\ verdict = NONE
    /\ upload = "file"
    /\ calls = <<>>
    /\ plots = {}
    /\ returned = <<>>

\* One call of analyze_dataset.
AnalyzeDataset ==
    /\ pc = "start"
    /\ \E order \in SortOrders(file.df), rnd \in CorrRoundings(file.df) :
        /\ result' = analyze_dataset(file, order, rnd).result
        /\ ran' = analyze_dataset(file, order, rnd).ran
    /\ pc' = "analyzed"
    /\ calls' = Append(calls, "analyze_dataset")
    /\ UNCHANGED <<file, score, verdict, upload, plots, returned>>

Next == AnalyzeDataset \/ CalculateQualityScore

Spec == Init /\ [][Next]_vars

(***************************************************************************)
(* profile_dataset, lines 289-328, with generate_visualizations and        *)
(* create_result_html.  An HTML text is kept as what it is built from: its *)
(* kind and the values interpolated into it.                               *)
(***************************************************************************)
\* Lines 291-294.
UploadPrompt == [kind |-> "prompt"]

\* Lines 301-304: the text holds result['error'].
ErrorHtml(error) == [kind |-> "error", error |-> error]

ReportTextLimit == 200

\* Lines 315-327 with the whole of str(e) in the text.
FailureHtml_whole(text) == [kind |-> "failure", text |-> text]

\* Lines 315-327: the text holds str(e)[:200].
FailureHtml(text) ==
    [kind |-> "failure", text |-> SubSeq(text, 1, Min(Len(text), ReportTextLimit))]

\* generate_visualizations, lines 206-279: the keys of the plots it makes.
generate_visualizations(d, analysis) ==
    (IF analysis.missing_patterns.has_missing THEN {"missing"} ELSE {})
    \cup (IF ~analysis.correlations.is_none /\ Len(analysis.correlations.matrix) > 1
          THEN {"correlation"} ELSE {})
    \cup (IF Len(select_dtypes(d, NUMBER)) > 0 THEN {"distribution"} ELSE {})
    \cup (IF Len(select_dtypes(d, OBJECT)) > 0 THEN {"categorical"} ELSE {})

\* Lines 391-409: the sections of the report, in order.
sections(analysis) ==
    (IF analysis.missing_patterns.has_missing THEN <<"missing">> ELSE <<>>)
    \o (IF ~analysis.correlations.is_none /\ analysis.correlations.count_strong > 0
        THEN <<"correlation">> ELSE <<>>)
    \o (IF analysis.outliers.has_outliers THEN <<"outliers">> ELSE <<>>)
    \o (IF ~analysis.numeric_stats.is_none THEN <<"numeric">> ELSE <<>>)
    \o (IF ~analysis.categorical_stats.is_none THEN <<"categorical">> ELSE <<>>)

\* abs(stats['skewness']) > 1, line 517: a comparison of doubles, false for NaN.
AbsSkewnessAboveOne(skewness) ==
    /\ ~skewness.nan
    /\ (skewness.n - 1) * skewness.m3 * skewness.m3
          > (skewness.n - 2) * (skewness.n - 2) * skewness.m2 * skewness.m2 * skewness.m2

\* f"{x:.2f}": the digits of a number, the text "nan" for NaN.
FormatFloat(isnan, x) == IF isnan THEN [text |-> "nan", of |-> <<>>] ELSE [text |-> "digits", of |-> <<x>>]

\* Lines 516-525: the table rows of the numeric section, for the first 8 entries.
numeric_rows(numeric_stats) ==
    [q \in 1..Min(Len(numeric_stats), 8) |->
        [column |-> numeric_stats[q].column,
         skew_color |-> IF AbsSkewnessAboveOne(numeric_stats[q].skewness)
                        THEN "#D32F2F" ELSE "#388E3C",
         mean |-> FormatFloat(FALSE, numeric_stats[q].mean),
         std |-> FormatFloat(numeric_stats[q].std.nan, numeric_stats[q].std),
         skewness |-> FormatFloat(numeric_stats[q].skewness.nan, numeric_stats[q].skewness)]]

\* create_result_html, lines 330-588, for the verdict quality_score of line 335.
create_result_html(res, made, quality_score) ==
    [kind |-> "report",
     quality |-> quality_score,
     stats |-> res.stats,
     sections |-> sections(res.analysis),
     numeric_rows |-> IF res.analysis.numeric_stats.is_none THEN <<>>
                      ELSE numeric_rows(res.analysis.numeric_stats.stats),
     images |-> (made \cap {"missing", "distribution", "categorical"})
                \cup (IF ~res.analysis.correlations.is_none
                         /\ res.analysis.correlations.count_strong > 0
                      THEN made \cap {"correlation"} ELSE {})]

\* The tuple returned at lines 291-295, 300-304, 313 and 328.
Return(html) == <<html, "", "", "">>

(***************************************************************************)
(* profile_dataset on bounded uploads.  The second read of line 307,       *)
(* generate_visualizations and create_result_html complete or raise an     *)
(* exception with some text (the file withdrawn between the two reads, a   *)
(* failure in the plotting library).                                       *)
(***************************************************************************)
MaxReportCells == 4

ReportShapes == { sh \in Shapes : sh[1] * sh[2] <= MaxReportCells }

\* The texts of the exceptions raised, by length: short, at the limit of 200, beyond it.
ReportExceptionTexts == { [i \in 1..k |-> i] : k \in {0, 1, 200, 201, 300} }

InitProfile ==
    /\ pc = "entry"
    /\ \/ /\ upload = "None"
          /\ file = Loaded([n |-> 0, columns |-> <<>>])
       \/ /\ upload = "file"
          /\ \/ \E sh \in ReportShapes : \E cs \in [1..sh[2] -> ColumnsOf(sh[1])] :
                    file = Loaded([n |-> sh[1], columns |-> cs])
             \/ \E d \in NumericTriples \cup AdjacentColumns : file = Loaded(d)
             \/ file \in LoadFailures
             \/ \E f \in AnalyzerFailures : Len(f.df.columns[1].cells) = f.df.n /\ file = f
    /\ result = NONE
    /\ ran = <<>>
    /\ score = NONE
    /\ verdict = NONE
    /\ calls = <<>>
    /\ plots = {}
    /\ returned = <<>>

\* Lines 290-296: without a file the upload prompt is returned; else the profiler is made.
ProfileDataset ==
    /\ pc = "entry"
    /\ IF upload = "None"
       THEN returned' = Return(UploadPrompt) /\ pc' = "returned"
       ELSE returned' = returned /\ pc' = "start"
    /\ UNCHANGED <<file, result, ran, score, verdict, upload, calls, plots>>

\* Lines 299-304: analyze_dataset returned an error.
ReturnError ==
    /\ pc = "analyzed"
    /\ "error" \in DOMAIN result
    /\ returned' = Return(ErrorHtml(result.error))
    /\ pc' = "returned"
    /\ UNCHANGED <<file, result, ran, score, verdict, upload, calls, plots>>

\* Line 307: the file is read a second time.
ReadAgain ==
    /\ pc = "analyzed"
    /\ "error" \notin DOMAIN result
    /\ calls' = Append(calls, "read")
    /\ \/ pc' = "loaded" /\ returned' = returned
       \/ \E text \in ReportExceptionTexts :
            returned' = Return(FailureHtml(text)) /\ pc' = "returned"
    /\ UNCHANGED <<file, result, ran, score, verdict, upload, plots>>

\* Line 308.
GenerateVisualizations ==
    /\ pc = "loaded"
    /\ calls' = Append(calls, "generate_visualizations")
    /\ \/ /\ plots' = generate_visualizations(file.df, result.analysis)
          /\ pc' = "plotted"
          /\ returned' = returned
       \/ \E text \in ReportExceptionTexts :
            /\ returned' = Return(FailureHtml(text))
            /\ pc' = "returned"
            /\ plots' = plots
    /\ UNCHANGED <<file, result, ran, score, verdict, upload>>

\* Lines 311-313: the report is built, the scorer called at line 335, and returned.
\* The number the scorer computes is local to it: the report holds its verdict.
CreateResultHtml ==
    /\ pc = "plotted"
    /\ calls' = Append(calls, "create_result_html")
    /\ \/ \E rnd \in Roundings(result.stats) :
            /\ verdict' = calculate_quality_score(result.stats, result.analysis, rnd)
            /\ returned' = Return(create_result_html(result, plots, verdict'))
       \/ \E text \in ReportExceptionTexts :
            /\ returned' = Return(FailureHtml(text))
            /\ verdict' = verdict
    /\ pc' = "returned"
    /\ UNCHANGED <<file, result, ran, score, upload, plots>>

NextProfile ==
    \/ ProfileDataset
    \/ AnalyzeDataset
    \/ ReturnError
    \/ ReadAgain
    \/ GenerateVisualizations
    \/ CreateResultHtml

SpecProfile == InitProfile /\ [][NextProfile]_vars

\* profile_dataset runs to its return: no step of it waits on anything.  Every step
\* changes pc.
FairProfile == SpecProfile /\ WF_pc(NextProfile)

(***************************************************************************)
(* Properties of the scorer.                                               *)
(***************************************************************************)
st == result.stats
S == Scale(st)
cells == st.shape[1] * st.shape[2]
listed == Len(result.analysis.outliers.outlier_columns)

\* t <= s for the double s whose exact value is s.num / S.
AtOrAbove(s, t) == s.num > t * S \/ (s.num = t * S /\ s.ulp >= 0)

\* The penalties as the percentages decide them, times S.
PctMissingPenalty ==
    IF 100 * st.missing_values > 10 * cells THEN 2 * (100 * st.missing_values)
    ELSE IF 100 * st.missing_values > 5 * cells THEN 1 * (100 * st.missing_values)
    ELSE 0

PctDuplicatePenalty ==
    IF 100 * st.duplicate_rows > 5 * st.shape[1] THEN 3 * (100 * st.duplicate_rows * st.shape[2])
    ELSE IF 100 * st.duplicate_rows > 1 * st.shape[1] THEN 2 * (100 * st.duplicate_rows * st.shape[2])
    ELSE 0

FlatOutlierPenalty ==
    IF ~result.analysis.outliers.has_outliers THEN 0
    ELSE IF 2 * listed > st.numeric_columns THEN 15 * S
    ELSE IF listed >= 1 THEN 5 * S
    ELSE 0

\* C1: the score is 100 minus the three penalties, all of them subtracted, clamped to
\* [0,100]; the verdict is the tier whose inclusive lower bound (85, 70, 50) the score
\* reaches; a profile without nulls, duplicates and outliers scores 100 and is EXCELENTE,
\* and a score of exactly 85, 70 or 50 is in the higher tier.
C1_ScoreAndVerdict ==
    pc = "scored" =>
        /\ score.num = Max(0, Min(100 * S,
                100 * S - (MissingPenalty(st) + DuplicatePenalty(st)
                             + OutlierPenalty(st, result.analysis))))
        /\ score.num >= 0 /\ score.num <= 100 * S
        /\ verdict = "EXCELENTE" <=> AtOrAbove(score, 85)
        /\ verdict = "BOM" <=> (AtOrAbove(score, 70) /\ ~AtOrAbove(score, 85))
        /\ verdict = "ACEITAVEL" <=> (AtOrAbove(score, 50) /\ ~AtOrAbove(score, 70))
        /\ verdict = "PROBLEMAS" <=> ~AtOrAbove(score, 50)
        /\ (st.missing_values = 0 /\ st.duplicate_rows = 0 /\ listed = 0)
              => (score = [num |-> 100 * S, ulp |-> 0] /\ verdict = "EXCELENTE")
        /\ score = [num |-> 85 * S, ulp |-> 0] => verdict = "EXCELENTE"
        /\ score = [num |-> 70 * S, ulp |-> 0] => verdict = "BOM"
        /\ score = [num |-> 50 * S, ulp |-> 0] => verdict = "ACEITAVEL"

\* C1 witness: all three penalties were subtracted and the score is exactly 85.
C1_Witness ==
    /\ pc = "scored"
    /\ MissingPenalty(st) > 0 /\ DuplicatePenalty(st) > 0 /\ OutlierPenalty(st, result.analysis) > 0
    /\ score = [num |-> 85 * S, ulp |-> 0]
    /\ verdict = "EXCELENTE"

\* C2: the missingness penalty is missing_pct * 2 when missing_pct > 10, missing_pct when
\* 5 < missing_pct <= 10 and 0 when missing_pct <= 5, for the cell-level missing_pct;
\* 12% missing with otherwise perfect data gives penalty 24, score 76, verdict BOM.
C2_MissingPenalty ==
    pc = "scored" =>
        /\ MissingPenalty(st) = PctMissingPenalty
        /\ (st.duplicate_rows = 0 /\ listed = 0)
              => score.num = Max(0, 100 * S - PctMissingPenalty)
        /\ (100 * st.missing_values = 12 * cells /\ st.duplicate_rows = 0 /\ listed = 0)
              => (MissingPenalty(st) = 24 * S /\ score.num = 76 * S /\ verdict = "BOM")
        /\ 100 * st.missing_values = 10 * cells => MissingPenalty(st) = 10 * S
        /\ 100 * st.missing_values = 5 * cells => MissingPenalty(st) = 0

\* C2 witness: 12% of the cells missing, no duplicates, no outliers, scored.
C2_Witness ==
    /\ pc = "scored"
    /\ 100 * st.missing_values = 12 * cells /\ st.duplicate_rows = 0 /\ listed = 0
    /\ score.num = 76 * S /\ verdict = "BOM"

\* C3: the duplicate penalty is dup_pct * 3 when dup_pct > 5, dup_pct * 2 when
\* 1 < dup_pct <= 5 and 0 when dup_pct <= 1; 6% duplicate rows with otherwise perfect
\* data gives penalty 18, score 82, verdict BOM.
C3_DuplicatePenalty ==
    pc = "scored" =>
        /\ DuplicatePenalty(st) = PctDuplicatePenalty
        /\ (st.missing_values = 0 /\ listed = 0)
              => score.num = Max(0, 100 * S - PctDuplicatePenalty)
        /\ (100 * st.duplicate_rows = 6 * st.shape[1] /\ st.missing_values = 0 /\ listed = 0)
              => (DuplicatePenalty(st) = 18 * S /\ score.num = 82 * S /\ verdict = "BOM")
        /\ 100 * st.duplicate_rows = 5 * st.shape[1] => DuplicatePenalty(st) = 10 * S
        /\ 100 * st.duplicate_rows = 1 * st.shape[1] => DuplicatePenalty(st) = 0

\* C3 witness: 6% duplicate rows, no nulls, no outliers, scored.
C3_Witness ==
    /\ pc = "scored"
    /\ 100 * st.duplicate_rows = 6 * st.shape[1] /\ st.missing_values = 0 /\ listed = 0
    /\ score.num = 82 * S /\ verdict = "BOM"

\* C4: the outlier penalty is 15 when more than half of the numeric columns are listed
\* with outliers, 5 when at least one but not more than half are, 0 when has_outliers is
\* false; exactly half gives 5.
C4_OutlierPenalty ==
    pc = "scored" =>
        /\ OutlierPenalty(st, result.analysis) = FlatOutlierPenalty
        /\ (st.missing_values = 0 /\ st.duplicate_rows = 0)
              => score.num = 100 * S - FlatOutlierPenalty
        /\ (listed > 0 /\ 2 * listed = st.numeric_columns)
              => OutlierPenalty(st, result.analysis) = 5 * S

\* C4 witness: exactly half of the numeric columns are listed, nothing else is penalised.
C4_Witness ==
    /\ pc = "scored"
    /\ listed > 0 /\ 2 * listed = st.numeric_columns
    /\ st.missing_values = 0 /\ st.duplicate_rows = 0
    /\ score.num = 95 * S

Rank(v) == CASE v = "EXCELENTE" -> 3 [] v = "BOM" -> 2 [] v = "ACEITAVEL" -> 1 [] OTHER -> 0

ScoreLeq(a, b) == a.num < b.num \/ (a.num = b.num /\ a.ulp <= b.ulp)

Penalties(x) ==
    <<MissingPenalty(x.stats), DuplicatePenalty(x.stats), OutlierPenalty(x.stats, x.analysis)>>

\* The profiles that differ from the scored one in one factor, raised by one step: one
\* more null, one more duplicate row, one more column with outliers, or one numeric
\* column fewer for the same columns with outliers.
Raised ==
    { ScorerInput(st.shape, t[1], t[2], t[3], t[4]) :
        t \in { u \in { <<st.missing_values + 1, st.duplicate_rows, st.numeric_columns, listed>>,
                        <<st.missing_values, st.duplicate_rows + 1, st.numeric_columns, listed>>,
                        <<st.missing_values, st.duplicate_rows, st.numeric_columns, listed + 1>>,
                        <<st.missing_values, st.duplicate_rows, st.numeric_columns - 1, listed>> } :
                    /\ u[1] <= cells
                    /\ u[2] < st.shape[1]
                    /\ u[4] <= u[3]
                    /\ (u[3] < st.numeric_columns => listed > 0) } }

\* C5: raising the missing percentage, the duplicate percentage or the fraction of
\* numeric columns with outliers, the other two fixed, never raises the score and never
\* moves the verdict to a better tier.  (With equal penalties the program runs the same
\* operations on the same doubles, so the two scores deviate the same way.)
C5_Monotone ==
    pc = "scored" =>
        \A x \in Raised :
            IF Penalties(x) = Penalties(result)
            THEN QualityScore(x.stats, x.analysis, 0).num = score.num
            ELSE \A q \in Roundings(x.stats) :
                    LET raised == QualityScore(x.stats, x.analysis, q)
                    IN  /\ ScoreLeq(raised, score)
                        /\ Rank(Verdict(x.stats, raised)) <= Rank(verdict)

\* C5 witness: a scored profile just below a tier breakpoint of each factor's penalty,
\* whose raised neighbours cross it.
C5_Witness ==
    /\ pc = "scored"
    /\ 100 * st.missing_values <= 10 * cells /\ 100 * (st.missing_values + 1) > 10 * cells
    /\ 100 * st.duplicate_rows <= 5 * st.shape[1] /\ 100 * (st.duplicate_rows + 1) > 5 * st.shape[1]
    /\ 2 * listed = st.numeric_columns /\ listed > 0
    /\ Cardinality(Raised) >= 3

(***************************************************************************)
(* Properties of the analyzers.                                            *)
(***************************************************************************)
\* analyze_dataset has returned a profile.
profiled == pc # "start" /\ "error" \notin DOMAIN result
df == file.df
numeric_cols == {c \in 1..Len(df.columns) : df.columns[c].dtype = NUMBER}
values_of(c) == dropna(df.columns[c].cells)
is_adjacent(c) == df.columns[c].adjacent
outlier_summary == result.analysis.outliers
listed_columns == {outlier_summary.outlier_columns[q].column :
                      q \in 1..Len(outlier_summary.outlier_columns)}

\* C6: a numeric column with fewer than 4 non-null values never reports outliers:
\* _has_outliers_iqr is false for it, the flag in its numeric profile is false, and
\* _detect_outliers does not list it.
C6_FewValuesNoOutliers ==
    profiled =>
        \A c \in numeric_cols :
            Len(values_of(c)) < 4 =>
                /\ ~has_outliers_iqr(values_of(c), is_adjacent(c))
                /\ \A q \in 1..Len(result.analysis.numeric_stats.stats) :
                      result.analysis.numeric_stats.stats[q].column = c
                          => ~result.analysis.numeric_stats.stats[q].has_outliers
                /\ c \notin listed_columns

\* C6 witness: a profile of a numeric column with exactly 3 non-null values, among them
\* 0 and 100, and not listed.
C6_Witness ==
    /\ profiled
    /\ \E c \in numeric_cols :
          /\ Len(values_of(c)) = 3
          /\ \E i, j \in 1..3 : values_of(c)[i] = 0 /\ values_of(c)[j] = 100
          /\ \E q \in 1..Len(result.analysis.numeric_stats.stats) :
                result.analysis.numeric_stats.stats[q].column = c
          /\ c \notin listed_columns

\* The non-null values of column c strictly outside [Q1 - 1.5*IQR, Q3 + 1.5*IQR], for
\* the doubles Q1, Q3 and the two bounds that the program holds; with the quartiles
\* times 4 the bounds times 8 are 8*Q1 - 12*IQR and 8*Q3 + 12*IQR.
StrictlyOutside(c) ==
    LET Q1 == Quantile4(values_of(c), 1, is_adjacent(c))
        Q3 == Quantile4(values_of(c), 3, is_adjacent(c))
        low == AsDouble(2 * Q1 - 3 * (Q3 - Q1), 8, is_adjacent(c))
        high == AsDouble(2 * Q3 + 3 * (Q3 - Q1), 8, is_adjacent(c))
    IN  SelectSeq(values_of(c), LAMBDA v : 8 * v < low \/ 8 * v > high)

ExpectedOutlierColumns ==
    LET cs == SelectSeq([c \in 1..Len(df.columns) |-> c],
                        LAMBDA c : /\ c \in numeric_cols
                                   /\ Len(values_of(c)) > 0
                                   /\ Len(StrictlyOutside(c)) > 0)
    IN  [q \in 1..Len(cs) |->
            [column |-> cs[q], outlier_count |-> Len(StrictlyOutside(cs[q])),
             percentage |-> [num |-> 100 * Len(StrictlyOutside(cs[q])),
                             den |-> Len(values_of(cs[q]))]]]

\* C7: the outlier summary lists, in column order, exactly the numeric columns with a
\* non-null value strictly outside the fences, each with the number of such values and
\* that number / non-null count * 100; has_outliers is true iff the list is non-empty;
\* [1,2,3,4,100] has the fences [-1, 7] and the one outlier 100.
C7_OutlierSummary ==
    profiled =>
        /\ outlier_summary.outlier_columns = ExpectedOutlierColumns
        /\ outlier_summary.has_outliers <=> Len(outlier_summary.outlier_columns) > 0
        /\ \A q \in 1..Len(outlier_summary.outlier_columns) :
              /\ outlier_summary.outlier_columns[q].outlier_count > 0
              /\ \A p \in 1..(q - 1) : outlier_summary.outlier_columns[p].column
                                          < outlier_summary.outlier_columns[q].column
        /\ (Len(df.columns) = 1 /\ df.columns[1] = NumericColumn(<<1, 2, 3, 4, 100>>))
              => /\ Fences(values_of(1), FALSE) = [lower_bound |-> 8 * (-1), upper_bound |-> 8 * 7]
                 /\ outlier_summary.outlier_columns =
                       << [column |-> 1, outlier_count |-> 1,
                           percentage |-> [num |-> 100, den |-> 5]] >>

\* C7 witness: a profile with both numeric columns listed, in column order, one of them
\* with a single outlier among four values.
C7_Witness ==
    /\ profiled
    /\ Len(outlier_summary.outlier_columns) = 2
    /\ outlier_summary.outlier_columns[1].column = 1
    /\ outlier_summary.outlier_columns[2].column = 2
    /\ outlier_summary.outlier_columns[1].outlier_count = 1
    /\ outlier_summary.outlier_columns[1].percentage = [num |-> 100, den |-> 4]

missing_summary == result.analysis.missing_patterns
no_nulls == \A c \in 1..Len(df.columns) : null_count(df.columns[c].cells) = 0

\* C8 as stated: total_missing is the sum of the per-column counts reported, and without
\* any null the summary reports has_missing = false, an empty list and
\* missing_percentage = 0.
C8_AsStated ==
    profiled =>
        /\ missing_summary.has_missing =>
              missing_summary.total_missing =
                  SumSeq([q \in 1..Len(missing_summary.missing_columns) |->
                              missing_summary.missing_columns[q].count])
        /\ no_nulls =>
              /\ ~missing_summary.has_missing
              /\ missing_summary.missing_columns = <<>>
              /\ "missing_percentage" \in DOMAIN missing_summary
              /\ missing_summary.missing_percentage.num = 0

\* C8: total_missing is the sum of the per-column counts reported whenever a column has
\* a null; without any null the summary is has_missing = false and an empty column
\* list, and carries neither total_missing nor missing_percentage.
C8_MissingSummary ==
    profiled =>
        /\ ~no_nulls =>
              /\ missing_summary.has_missing
              /\ missing_summary.total_missing =
                    SumSeq([q \in 1..Len(missing_summary.missing_columns) |->
                                missing_summary.missing_columns[q].count])
              /\ \A q \in 1..Len(missing_summary.missing_columns) :
                    missing_summary.missing_columns[q].count
                        = null_count(df.columns[missing_summary.missing_columns[q].column].cells)
        /\ no_nulls =>
              /\ ~missing_summary.has_missing
              /\ missing_summary.missing_columns = <<>>
              /\ DOMAIN missing_summary = {"has_missing", "missing_columns"}

\* C8 witness: a profile of a dataset with a row holding two nulls.
C8_Witness ==
    /\ profiled
    /\ Len(missing_summary.missing_columns) = 2
    /\ \E i \in 1..df.n : df.columns[1].cells[i] = NULL /\ df.columns[2].cells[i] = NULL
    /\ missing_summary.total_missing >= 3

correlations == result.analysis.correlations
numeric_seq == select_dtypes(df, NUMBER)

\* abs(r) > 0.7 for the double r of a matrix entry.
AboveThreshold(r) ==
    /\ ~r.nan
    /\ \/ 100 * (r.sxy * r.sxy) > 49 * (r.sxx * r.syy)
       \/ 100 * (r.sxy * r.sxy) = 49 * (r.sxx * r.syy) /\ r.ulp = 1

\* The place of column c among the numeric columns.
numeric_index(c) == CHOOSE i \in 1..Len(numeric_seq) : numeric_seq[i] = c

\* C9: the strong-correlation list holds exactly the pairs of numeric columns (i, j),
\* i < j, whose matrix entry r has |r| > 0.70 (an entry equal to 0.70 and a NaN entry are
\* not listed), each once, ordered by i then j; count_strong is its length; the summary
\* is None when there are fewer than 2 numeric columns.
C9_StrongCorrelations ==
    profiled =>
        IF Len(numeric_seq) < 2 THEN correlations.is_none
        ELSE LET strong == correlations.strong_correlations
                 entry(a, b) == correlations.matrix[numeric_index(a)][numeric_index(b)]
             IN  /\ ~correlations.is_none
                 /\ correlations.count_strong = Len(strong)
                 /\ \A q \in 1..Len(strong) :
                       /\ strong[q].col1 \in numeric_cols /\ strong[q].col2 \in numeric_cols
                       /\ strong[q].col1 < strong[q].col2
                       /\ strong[q].correlation = entry(strong[q].col1, strong[q].col2)
                       /\ AboveThreshold(strong[q].correlation)
                       /\ ~strong[q].correlation.nan
                       /\ \A p \in 1..(q - 1) :
                             \/ strong[p].col1 < strong[q].col1
                             \/ strong[p].col1 = strong[q].col1 /\ strong[p].col2 < strong[q].col2
                 /\ \A a, b \in numeric_cols :
                       (a < b /\ AboveThreshold(entry(a, b)))
                           => \E q \in 1..Len(strong) : strong[q].col1 = a /\ strong[q].col2 = b
                 /\ \A a, b \in numeric_cols :
                       entry(a, b) = corr_value(df, a, b, entry(a, b).ulp)

\* C9 witness: three numeric columns whose three pairs are all strong and listed in the
\* order (1,2), (1,3), (2,3).
C9_Witness ==
    /\ profiled
    /\ Len(numeric_seq) = 3
    /\ correlations.count_strong = 3
    /\ correlations.strong_correlations[2].col1 = 1
    /\ correlations.strong_correlations[2].col2 = 3

\* The boundary of C9 is reached: an entry whose exact value is 7/10, rounded to the double
\* 0.7, is not listed.
C9_BoundaryReached ==
    /\ profiled
    /\ Len(numeric_seq) = 2
    /\ AtThreshold(correlations.matrix[1][2])
    /\ correlations.matrix[1][2].ulp = 0
    /\ correlations.count_strong = 0

\* C10: analyze_dataset returns either an error result with the single key 'error' or a
\* full profile with 'stats' and 'analysis' and no 'error'; a dataset without rows is
\* rejected before any analyzer is called; a failure of the load or of an analyzer gives
\* the error result with the first 150 characters of the exception text; a non-empty
\* dataset that nothing fails on gives the full profile.
C10_Outcome ==
    pc # "start" =>
        /\ \/ DOMAIN result = {"error"}
           \/ {"stats", "analysis"} \subseteq DOMAIN result /\ "error" \notin DOMAIN result
        /\ (file.raises # "load" /\ df.n = 0) =>
              /\ DOMAIN result = {"error"}
              /\ result.error.message = "Dataset vazio"
              /\ ran = <<>>
        /\ (file.raises = "load" \/ (file.raises # "none" /\ df.n > 0 /\ Len(df.columns) > 0)) =>
              /\ DOMAIN result = {"error"}
              /\ result.error.message = "Erro ao analisar dataset: "
              /\ Len(result.error.text) <= 150
              /\ Len(result.error.text) = Min(Len(file.text), 150)
              /\ \A i \in 1..Len(result.error.text) : result.error.text[i] = file.text[i]
        /\ (file.raises = "none" /\ df.n > 0 /\ Len(df.columns) > 0) =>
              /\ {"stats", "analysis"} \subseteq DOMAIN result
              /\ "error" \notin DOMAIN result
              /\ ran = ANALYZERS
              /\ result.stats.shape = <<df.n, Len(df.columns)>>

\* C10 witness: an analyzer raised with a text longer than 150 characters, and the error
\* result carries 150 of them.
C10_Witness ==
    /\ pc = "analyzed"
    /\ file.raises = "correlations"
    /\ Len(file.text) > 150
    /\ DOMAIN result = {"error"}
    /\ Len(result.error.text) = 150
    /\ ran = SubSeq(ANALYZERS, 1, 4)

\* C11 as stated: the missingness summary retains exactly the columns whose null count
\* is > 0, ordered by null count descending, and columns of equal null count keep their
\* dataset column order.
C11_AsStated ==
    profiled =>
        LET listed_nulls == missing_summary.missing_columns
        IN  /\ {listed_nulls[q].column : q \in 1..Len(listed_nulls)}
                  = {c \in 1..Len(df.columns) : null_count(df.columns[c].cells) > 0}
            /\ \A q \in 1..Len(listed_nulls) :
                  /\ listed_nulls[q].count = null_count(df.columns[listed_nulls[q].column].cells)
                  /\ listed_nulls[q].count > 0
            /\ \A p, q \in 1..Len(listed_nulls) :
                  p < q =>
                      \/ listed_nulls[p].count > listed_nulls[q].count
                      \/ /\ listed_nulls[p].count = listed_nulls[q].count
                         /\ listed_nulls[p].column < listed_nulls[q].column

\* C11 witness: two columns of equal null count listed against the dataset's column
\* order, behind no column of a larger count.
C11_Witness ==
    /\ profiled
    /\ Len(missing_summary.missing_columns) = 2
    /\ missing_summary.missing_columns[1].count = missing_summary.missing_columns[2].count
    /\ missing_summary.missing_columns[1].column = 2
    /\ missing_summary.missing_columns[2].column = 1

\* The columns no select_dtypes call of lines 47-49 selects, and the dataset without them.
classified == SelectSeq([c \in 1..Len(df.columns) |-> c],
                        LAMBDA c : df.columns[c].dtype \in {NUMBER, OBJECT, DATETIME})
unclassified == {c \in 1..Len(df.columns) : df.columns[c].dtype \notin {NUMBER, OBJECT, DATETIME}}
classified_df == [n |-> df.n, columns |-> [k \in 1..Len(classified) |-> df.columns[classified[k]]]]

\* The entries of an analyzer's result on classified_df, under the names the columns
\* have in the dataset.
Renamed(entries) ==
    [q \in 1..Len(entries) |-> [entries[q] EXCEPT !.column = classified[entries[q].column]]]

RenamedPairs(entries) ==
    [q \in 1..Len(entries) |->
        [entries[q] EXCEPT !.col1 = classified[entries[q].col1],
                           !.col2 = classified[entries[q].col2]]]

\* C12: a column that is neither numeric, categorical nor datetime (a boolean column)
\* contributes nothing to the analyzers: the numeric, categorical, correlation and
\* outlier results, the per-column null counts, total_missing, missing_percentage and
\* the missing-value total of the stats are those of the dataset without such columns,
\* and no result names such a column.
C12_UnclassifiedExcluded ==
    (profiled /\ unclassified # {}) =>
        LET an == result.analysis
            numeric_alone == analyze_numeric_columns(classified_df)
            categorical_alone == analyze_categorical_columns(classified_df)
            outliers_alone == detect_outliers(classified_df)
        IN  /\ an.numeric_stats.is_none = numeric_alone.is_none
            /\ an.numeric_stats.stats = Renamed(numeric_alone.stats)
            /\ an.categorical_stats.is_none = categorical_alone.is_none
            /\ an.categorical_stats.stats = Renamed(categorical_alone.stats)
            /\ an.outliers.has_outliers = outliers_alone.has_outliers
            /\ an.outliers.outlier_columns = Renamed(outliers_alone.outlier_columns)
            /\ \E rnd \in CorrRoundings(classified_df) :
                  LET correlations_alone == analyze_correlations(classified_df, rnd)
                  IN  /\ an.correlations.is_none = correlations_alone.is_none
                      /\ an.correlations.matrix = correlations_alone.matrix
                      /\ an.correlations.count_strong = correlations_alone.count_strong
                      /\ an.correlations.strong_correlations
                            = RenamedPairs(correlations_alone.strong_correlations)
            /\ \E order \in SortOrders(classified_df) :
                  LET missing_alone == analyze_missing_data(classified_df, order)
                  IN  /\ an.missing_patterns.has_missing = missing_alone.has_missing
                      /\ an.missing_patterns.missing_columns = Renamed(missing_alone.missing_columns)
                      /\ missing_alone.has_missing =>
                            /\ an.missing_patterns.total_missing = missing_alone.total_missing
                            /\ an.missing_patterns.missing_percentage
                                  = missing_alone.missing_percentage
            /\ result.stats.missing_values = missing_values(classified_df)
            /\ \A c \in unclassified :
                  /\ \A q \in 1..Len(an.numeric_stats.stats) : an.numeric_stats.stats[q].column # c
                  /\ \A q \in 1..Len(an.categorical_stats.stats) :
                        an.categorical_stats.stats[q].column # c
                  /\ \A q \in 1..Len(an.outliers.outlier_columns) :
                        an.outliers.outlier_columns[q].column # c
                  /\ \A q \in 1..Len(an.missing_patterns.missing_columns) :
                        an.missing_patterns.missing_columns[q].column # c

\* C12 witness: a profile of a boolean column followed by a numeric column with a null
\* and an outlier.
C12_Witness ==
    /\ profiled
    /\ Len(df.columns) = 2
    /\ df.columns[1].dtype = BOOL
    /\ df.columns[2].dtype = NUMBER
    /\ result.stats.missing_values = 1
    /\ result.analysis.missing_patterns.missing_columns = << [column |-> 2, count |-> 1] >>
    /\ Len(result.analysis.numeric_stats.stats) = 1
    /\ result.analysis.numeric_stats.stats[1].column = 2
    /\ result.stats.numeric_columns = 1

ColumnSet(kind) == {select_dtypes(df, kind)[q] : q \in 1..Len(select_dtypes(df, kind))}

\* C13: the classification of lines 47-49 puts every column into at most one of the
\* numeric, categorical and datetime sets, so numeric_columns + categorical_columns +
\* datetime_columns <= the number of columns, and shape[0] is the number of rows of the
\* dataset.
C13_Classification ==
    profiled =>
        /\ ColumnSet(NUMBER) \cap ColumnSet(OBJECT) = {}
        /\ ColumnSet(NUMBER) \cap ColumnSet(DATETIME) = {}
        /\ ColumnSet(OBJECT) \cap ColumnSet(DATETIME) = {}
        /\ st.numeric_columns = Cardinality(ColumnSet(NUMBER))
        /\ st.categorical_columns = Cardinality(ColumnSet(OBJECT))
        /\ st.datetime_columns = Cardinality(ColumnSet(DATETIME))
        /\ st.numeric_columns + st.categorical_columns + st.datetime_columns <= st.shape[2]
        /\ st.shape[2] = Len(df.columns)
        /\ st.shape[1] = df.n
        /\ \A c \in 1..Len(df.columns) : Len(df.columns[c].cells) = st.shape[1]

\* C13 witness: a profile of four rows in which one column is in a set and the other,
\* a boolean column, is in none.
C13_Witness ==
    /\ profiled
    /\ st.shape = <<4, 2>>
    /\ st.numeric_columns = 0 /\ st.categorical_columns = 0 /\ st.datetime_columns = 1
    /\ unclassified = {1}

\* The columns an analyzer's result mapping holds.
Mapped(stats) == {stats[q].column : q \in 1..Len(stats)}

\* The columns of a type with at least one non-null value.
WithValues(kind) == {c \in ColumnSet(kind) : Len(values_of(c)) > 0}

\* C14: in the numeric and the categorical analyzer a column of the analyzer's type is in
\* the result mapping iff it has at least one non-null value (an all-null column is
\* omitted, not zero-filled), and the analyzer returns None iff the dataset has no
\* column of that type: all-null columns alone give an empty mapping, not None.
C14_MappedColumns ==
    profiled =>
        LET numeric_stats == result.analysis.numeric_stats
            categorical_stats == result.analysis.categorical_stats
        IN  /\ numeric_stats.is_none <=> ColumnSet(NUMBER) = {}
            /\ ~numeric_stats.is_none =>
                  /\ Mapped(numeric_stats.stats) = WithValues(NUMBER)
                  /\ Len(numeric_stats.stats) = Cardinality(WithValues(NUMBER))
            /\ categorical_stats.is_none <=> ColumnSet(OBJECT) = {}
            /\ ~categorical_stats.is_none =>
                  /\ Mapped(categorical_stats.stats) = WithValues(OBJECT)
                  /\ Len(categorical_stats.stats) = Cardinality(WithValues(OBJECT))

\* C14 witness: a profile of an all-null numeric column, giving an empty mapping, and an
\* all-null object column next to it.
C14_Witness ==
    /\ profiled
    /\ ColumnSet(NUMBER) = {1} /\ ColumnSet(OBJECT) = {2}
    /\ values_of(1) = <<>> /\ values_of(2) = <<>>
    /\ ~result.analysis.numeric_stats.is_none
    /\ result.analysis.numeric_stats.stats = <<>>
    /\ ~result.analysis.categorical_stats.is_none
    /\ result.analysis.categorical_stats.stats = <<>>

\* C16 as stated: within one profile the per-column flag of the numeric analyzer and the
\* dataset-wide outlier summary agree: for every numeric column with at least one
\* non-null value, numeric_stats[column].has_outliers is true iff the column is listed
\* in outliers.outlier_columns.
C16_AsStated ==
    profiled =>
        \A q \in 1..Len(result.analysis.numeric_stats.stats) :
            result.analysis.numeric_stats.stats[q].has_outliers
                <=> result.analysis.numeric_stats.stats[q].column \in listed_columns

\* C16 witness: a numeric column of fewer than 4 values that the summary lists and the
\* numeric analyzer does not flag.
C16_Witness ==
    /\ profiled
    /\ Len(result.analysis.numeric_stats.stats) = 1
    /\ Len(values_of(1)) = 3
    /\ ~result.analysis.numeric_stats.stats[1].has_outliers
    /\ listed_columns = {1}

reported == pc = "returned" /\ returned[1].kind = "report"
report == returned[1]

\* The colours and the text the report gives an ordinary number: the outcome of the
\* comparison with 1, and the digits of the number.
OrdinaryColors == {"#D32F2F", "#388E3C"}

\* The entry of the numeric profile for column c.
numeric_profile(c) ==
    result.analysis.numeric_stats.stats[
        CHOOSE q \in 1..Len(result.analysis.numeric_stats.stats) :
            result.analysis.numeric_stats.stats[q].column = c]

\* C15 as stated: for a numeric column with exactly one non-null value the std and the
\* skewness of its profile are the undefined marker (NaN), not 0, and no consumer treats
\* them as an ordinary number: the report colours the skewness cell and formats the two
\* cells only after branching on the marker, so the cell has neither the colour that
\* the comparison abs(skewness) > 1 yields nor the text that formatting a float yields.
C15_AsStated ==
    reported =>
        \A q \in 1..Len(report.numeric_rows) :
            Len(values_of(report.numeric_rows[q].column)) = 1 =>
                /\ numeric_profile(report.numeric_rows[q].column).std.nan
                /\ numeric_profile(report.numeric_rows[q].column).skewness.nan
                /\ report.numeric_rows[q].skew_color \notin OrdinaryColors
                /\ report.numeric_rows[q].std.text # "nan"
                /\ report.numeric_rows[q].skewness.text # "nan"

\* C15 witness: a report with the row of a numeric column of exactly one non-null value,
\* whose std and skewness are NaN in the profile.
C15_Witness ==
    /\ reported
    /\ Len(report.numeric_rows) = 1
    /\ Len(values_of(report.numeric_rows[1].column)) = 1
    /\ numeric_profile(report.numeric_rows[1].column).std.nan
    /\ numeric_profile(report.numeric_rows[1].column).skewness.nan
    /\ report.numeric_rows[1].skew_color = "#388E3C"
    /\ report.numeric_rows[1].skewness.text = "nan"

\* What profile_dataset calls, in order.
CallOrder == <<"analyze_dataset", "read", "generate_visualizations", "create_result_html">>

\* The exception texts as the failure text shows them.
ShownTexts == {SubSeq(t, 1, Min(Len(t), 200)) : t \in ReportExceptionTexts}

C18_Returns ==
    /\ calls = SubSeq(CallOrder, 1, Len(calls))
    /\ pc # "returned" => returned = <<>>
    /\ pc = "returned" =>
          /\ Len(returned) = 4
          /\ returned[2] = "" /\ returned[3] = "" /\ returned[4] = ""
          /\ returned[1].kind \in {"prompt", "error", "failure", "report"}
          /\ returned[1].kind = "prompt" <=> upload = "None"
          /\ returned[1].kind = "prompt" => (calls = <<>> /\ ran = <<>> /\ plots = {})
          /\ returned[1].kind = "error" <=> (calls # <<>> /\ "error" \in DOMAIN result)
          /\ returned[1].kind = "error" =>
                /\ returned[1].error = result.error
                /\ calls = <<"analyze_dataset">>
                /\ plots = {}
          /\ returned[1].kind = "failure" =>
                /\ Len(calls) >= 2
                /\ Len(returned[1].text) <= 200
                /\ returned[1].text \in ShownTexts
          /\ returned[1].kind = "report" =>
                /\ calls = CallOrder
                /\ returned[1].quality = verdict
                /\ plots = generate_visualizations(df, result.analysis)
    /\ Len(calls) >= 2 => "error" \notin DOMAIN result

\* C18: profile_dataset never raises and always returns a 4-tuple whose last three
\* elements are empty strings: without a file it returns the upload prompt and runs no
\* analysis; when analyze_dataset returns an error result it returns the error HTML
\* without reading the file again, generating visualizations or building the report;
\* generate_visualizations and create_result_html run only after analyze_dataset has
\* returned a non-error result, and an exception they raise is turned into a failure
\* HTML whose exception text is cut to at most 200 characters.
C18_ProfileDataset == [](C18_Returns) /\ <>(pc = "returned")

\* C18 witness: create_result_html raised with a text beyond 200 characters, and the
\* failure HTML with the text cut to 200 was returned.
C18_Witness ==
    /\ pc = "returned"
    /\ calls = CallOrder
    /\ returned[1].kind = "failure"
    /\ Len(returned[1].text) = 200
    /\ returned[2] = "" /\ returned[3] = "" /\ returned[4] = ""

=============================================================================
